---------------------------- MODULE Spec2Model ----------------------------
(***************************************************************************)
(* sngrep capture manager (src/capture/capture.c) and RTP stream           *)
(* (stream.c): a state-machine model of the capture orchestrator, of the   *)
(* controlling context and the capture thread around start/stop, and of    *)
(* the stream packet counter.                                              *)
(*                                                                         *)
(* Four specifications share the variables:                                *)
(*   CfgSpec     the configuration calls of the controlling context        *)
(*               (add_input, set_filter, set_pause) and the status reads;  *)
(*   Spec        add_output, start, stop and the capture thread's loop,    *)
(*               interleaved step by step; FairSpec adds the scheduler's   *)
(*               fairness;                                                 *)
(*   StreamSpec  stream_new / stream_add_packet / stream_get_count /       *)
(*               stream_is_active;                                         *)
(*   FormatSpec  stream_new / stream_set_format / stream_get_format.       *)
(***************************************************************************)
EXTENDS Integers, Sequences, FiniteSets, TLC

VARIABLES
    inputs,        \* manager->inputs : GSList of CaptureInput, in append order
    outputs,       \* manager->outputs: GSList of CaptureOutput, in append order
    filter,        \* manager->filter : gchar * (NULL or an expression)
    paused,        \* manager->paused
    last,          \* the call just made, if set_filter: argument, return value,
                   \* manager->filter as it was before the call, the sources
                   \* whose filter callback it invoked, in order, and the
                   \* filter each source had applied before the call
    addCalls,      \* number of capture_manager_add_input calls made so far
    ctl,           \* position of the controlling context
    closeIdx,      \* capture_manager_stop: cursor of the close loop
    tpc,           \* position of the capture thread
    is_running,    \* loop->is_running of manager->loop
    accepted,      \* packets whose dispatch has begun (ids 1..accepted)
    outIdx,        \* capture_manager_output_packet: cursor of the write loop
    events,        \* sink operations invoked so far and the steps of stop
                   \* (loop quit, thread join returned), in order
    stored,        \* packets handed to the Session Store by dispatch
    acceptedAtStop,\* value of accepted when capture_manager_stop was invoked
    stream,        \* one Stream object (stream.c)
    mono,          \* g_get_monotonic_time()
    calls,         \* number of stream_add_packet calls made so far, as
                   \* base-2^16 limbs (hi unbounded), and how they were made;
                   \* the capture time of the first packet added (first), the
                   \* clock reading at the latest call (lastAt), and what
                   \* stream_is_active returned if it was called just now
    media,         \* stream->media : the media descriptor, if any, and its
                   \* declared formats (media->formats)
    fmtcode,       \* stream->fmtcode : guint8
    format         \* what stream_get_format returned if it was called just now

mgrVars    == <<inputs, filter, paused, last, addCalls>>
runVars    == <<outputs, ctl, closeIdx, tpc, is_running, accepted, outIdx,
                events, stored, acceptedAtStop>>
streamVars == <<stream, mono, calls>>
fmtVars    == <<media, fmtcode, format>>
vars       == <<inputs, outputs, filter, paused, last, addCalls, ctl, closeIdx,
                tpc, is_running, accepted, outIdx, events, stored,
                acceptedAtStop, stream, mono, calls, media, fmtcode, format>>

-----------------------------------------------------------------------------
(* Bounds of the model *)

MaxInputs == 3

MaxOutputs == 3

MaxPackets == 2

MaxSingles == 3

MaxBursts == 3

MaxMono == 5

MaxFormats == 2

-----------------------------------------------------------------------------
(* Values *)

NULL == "(null)"

CAPTURE_MODE_ONLINE == "CAPTURE_MODE_ONLINE"

CAPTURE_MODE_OFFLINE == "CAPTURE_MODE_OFFLINE"

CaptureModes == {CAPTURE_MODE_ONLINE, CAPTURE_MODE_OFFLINE}

\* Filter expressions a caller may pass to set_filter.
FilterExprs == {"udp", "port 5060"}

\* What a source's own filter callback accepts (e.g. what pcap_compile takes).
AcceptSets == {{"udp"}, {"udp", "port 5060"}}

\* The capture inputs a caller may register: mode tag, optional filter
\* callback (input->filter NULL or not) and the expressions it accepts.
\* applied is the expression the source itself last accepted; destroyed is
\* g_source_is_destroyed(input->source).
NewInputs ==
    { [mode |-> m, hasFilter |-> TRUE, accepts |-> a, applied |-> NULL,
       destroyed |-> FALSE] : m \in CaptureModes, a \in AcceptSets }
    \cup
    { [mode |-> m, hasFilter |-> FALSE, accepts |-> {}, applied |-> NULL,
       destroyed |-> FALSE] : m \in CaptureModes }

\* Value of last when the latest call was not set_filter.
NoCall ==
    [op |-> "none", expr |-> NULL, ok |-> FALSE, prev |-> NULL,
     invoked |-> <<>>, before |-> <<>>]

\* The capture outputs a caller may register: optional write and close.
NewOutputs == [hasWrite : BOOLEAN, hasClose : BOOLEAN]

-----------------------------------------------------------------------------
(* capture_manager_set_filter *)

\* g_strdup: a copy with the same characters; NULL for NULL.
g_strdup(s) == s

\* input->filter(input, filter, error) of one source: TRUE iff it accepts.
InputFilterAccepts(input, e) == e \in input.accepts

\* Line 127: what manager->filter becomes when a source rejects.
FilterOnReject_keep(old) == old

FilterOnReject(old) == NULL

\* Line 134: what manager->filter becomes when no source rejected.
FilterOnSuccess_keep(old, e) == old

FilterOnSuccess(old, e) == g_strdup(e)

\* A variant that goes on to the remaining sources after a rejection.
RECURSIVE FilterLoop_continue(_, _, _)
FilterLoop_continue(ins, i, e) ==
    IF i > Len(ins) THEN [ok |-> TRUE, ins |-> ins, invoked |-> <<>>]
    ELSE IF ins[i].hasFilter
         THEN IF InputFilterAccepts(ins[i], e)
              THEN LET r == FilterLoop_continue([ins EXCEPT ![i].applied = e],
                                                i + 1, e)
                   IN  [r EXCEPT !.invoked = <<i>> \o @]
              ELSE LET r == FilterLoop_continue(ins, i + 1, e)
                   IN  [ok |-> FALSE, ins |-> r.ins, invoked |-> <<i>> \o r.invoked]
         ELSE FilterLoop_continue(ins, i + 1, e)

\* The loop of lines 123-131 from list position i on: the sources as they
\* are left, whether the loop ran to the end (ok) or returned FALSE, and
\* the list positions of the sources whose filter callback was invoked.
RECURSIVE FilterLoop(_, _, _)
FilterLoop(ins, i, e) ==
    IF i > Len(ins) THEN [ok |-> TRUE, ins |-> ins, invoked |-> <<>>]
    ELSE IF ins[i].hasFilter
         THEN IF InputFilterAccepts(ins[i], e)
              THEN LET r == FilterLoop([ins EXCEPT ![i].applied = e], i + 1, e)
                   IN  [r EXCEPT !.invoked = <<i>> \o @]
              ELSE [ok |-> FALSE, ins |-> ins, invoked |-> <<i>>]
         ELSE FilterLoop(ins, i + 1, e)

capture_manager_set_filter(e) ==
    LET r == FilterLoop(inputs, 1, e) IN
    /\ inputs' = r.ins
    /\ filter' = IF r.ok THEN FilterOnSuccess(filter, e) ELSE FilterOnReject(filter)
    /\ last' = [op |-> "set_filter", expr |-> e, ok |-> r.ok, prev |-> filter,
                invoked |-> r.invoked,
                before |-> [i \in DOMAIN inputs |-> inputs[i].applied]]
    /\ UNCHANGED <<paused, addCalls>>

\* capture_manager_filter
capture_manager_filter == filter

-----------------------------------------------------------------------------
(* capture_manager_add_input, capture_manager_set_pause *)

capture_manager_add_input(input) ==
    /\ Len(inputs) < MaxInputs
    /\ inputs' = Append(inputs, input)
    /\ addCalls' = addCalls + 1
    /\ last' = NoCall
    /\ UNCHANGED <<filter, paused>>

capture_manager_set_pause(b) ==
    /\ paused' = b
    /\ last' = NoCall
    /\ UNCHANGED <<inputs, filter, addCalls>>

\* An offline source has finished loading its file: its loop handle is
\* destroyed.
SourceDestroyed(i) ==
    /\ inputs[i].mode = CAPTURE_MODE_OFFLINE
    /\ ~inputs[i].destroyed
    /\ inputs' = [inputs EXCEPT ![i].destroyed = TRUE]
    /\ last' = NoCall
    /\ UNCHANGED <<filter, paused, addCalls>>

-----------------------------------------------------------------------------
(* capture_status_desc, capture_is_online, capture_sources_count *)

\* A variant that counts every source whose handle is not destroyed as
\* loading.
RECURSIVE CountLoop_loadingAny(_, _, _)
CountLoop_loadingAny(ins, i, c) ==
    IF i > Len(ins) THEN c
    ELSE LET d == [c EXCEPT !.loading = IF ~ins[i].destroyed THEN @ + 1 ELSE @]
         IN  IF ins[i].mode = CAPTURE_MODE_OFFLINE
             THEN CountLoop_loadingAny(ins, i + 1, [d EXCEPT !.offline = @ + 1])
             ELSE CountLoop_loadingAny(ins, i + 1, [d EXCEPT !.online = @ + 1])

\* The counting loop of lines 181-192.
RECURSIVE CountLoop(_, _, _)
CountLoop(ins, i, c) ==
    IF i > Len(ins) THEN c
    ELSE IF ins[i].mode = CAPTURE_MODE_OFFLINE
         THEN CountLoop(ins, i + 1,
                        [c EXCEPT !.offline = @ + 1,
                                  !.loading = IF ~ins[i].destroyed THEN @ + 1 ELSE @])
         ELSE CountLoop(ins, i + 1, [c EXCEPT !.online = @ + 1])

StatusCounts(ins) == CountLoop(ins, 1, [online |-> 0, offline |-> 0, loading |-> 0])

\* A variant that tests loading before paused.
StatusText_loadingFirst(p, online, offline, loading) ==
    IF loading > 0
    THEN IF online > 0 /\ offline = 0 THEN "Online (Loading)"
         ELSE IF online = 0 /\ offline > 0 THEN "Offline (Loading)"
         ELSE "Mixed (Loading)"
    ELSE IF p
    THEN IF online > 0 /\ offline = 0 THEN "Online (Paused)"
         ELSE IF online = 0 /\ offline > 0 THEN "Offline (Paused)"
         ELSE "Mixed (Paused)"
    ELSE IF online > 0 /\ offline = 0 THEN "Online"
         ELSE IF online = 0 /\ offline > 0 THEN "Offline"
         ELSE "Mixed"

\* Lines 201-225.
StatusText(p, online, offline, loading) ==
    IF p
    THEN IF online > 0 /\ offline = 0 THEN "Online (Paused)"
         ELSE IF online = 0 /\ offline > 0 THEN "Offline (Paused)"
         ELSE "Mixed (Paused)"
    ELSE IF loading > 0
    THEN IF online > 0 /\ offline = 0 THEN "Online (Loading)"
         ELSE IF online = 0 /\ offline > 0 THEN "Offline (Loading)"
         ELSE "Mixed (Loading)"
    ELSE IF online > 0 /\ offline = 0 THEN "Online"
         ELSE IF online = 0 /\ offline > 0 THEN "Offline"
         ELSE "Mixed"

capture_status_desc ==
    LET c == StatusCounts(inputs) IN StatusText(paused, c.online, c.offline, c.loading)

\* A variant that answers from the first source only.
OnlineLoop_firstOnly(ins, i) ==
    IF i > Len(ins) THEN TRUE
    ELSE ins[i].mode # CAPTURE_MODE_OFFLINE

\* The loop of lines 237-244.
RECURSIVE OnlineLoop(_, _)
OnlineLoop(ins, i) ==
    IF i > Len(ins) THEN TRUE
    ELSE IF ins[i].mode = CAPTURE_MODE_OFFLINE THEN FALSE
    ELSE OnlineLoop(ins, i + 1)

capture_is_online == OnlineLoop(inputs, 1)

\* g_slist_length(manager->inputs)
capture_sources_count == Len(inputs)

-----------------------------------------------------------------------------
(* capture_manager_add_output, capture_manager_start *)

capture_manager_add_output(output) ==
    /\ ctl = "config"
    /\ Len(outputs) < MaxOutputs
    /\ outputs' = Append(outputs, output)
    /\ UNCHANGED <<ctl, closeIdx, tpc, is_running, accepted, outIdx, events,
                   stored, acceptedAtStop>>
    /\ UNCHANGED <<mgrVars, streamVars, fmtVars>>

\* capture_manager_set_pause called while the orchestrator is set up or runs.
SetPauseRun(b) ==
    /\ ctl \in {"config", "started"}
    /\ paused # b
    /\ capture_manager_set_pause(b)
    /\ UNCHANGED <<runVars, streamVars, fmtVars>>

\* Line 100: g_thread_new returns once the thread exists; the thread has not
\* necessarily run any instruction of capture_manager_thread yet.
capture_manager_start ==
    /\ ctl = "config"
    /\ ctl' = "started"
    /\ tpc' = "spawned"
    /\ UNCHANGED <<outputs, closeIdx, is_running, accepted, outIdx, events,
                   stored, acceptedAtStop>>
    /\ UNCHANGED <<mgrVars, streamVars, fmtVars>>

-----------------------------------------------------------------------------
(* capture_manager_thread: g_main_loop_run(manager->loop) *)

\* g_main_loop_run, entry: sets loop->is_running to TRUE, whatever it was.
LoopRunEnter ==
    /\ tpc = "spawned"
    /\ is_running' = TRUE
    /\ tpc' = "loop"
    /\ UNCHANGED <<outputs, ctl, closeIdx, accepted, outIdx, events, stored,
                   acceptedAtStop>>
    /\ UNCHANGED <<mgrVars, streamVars, fmtVars>>

\* g_main_loop_run, the test of  while (loop->is_running) : one more
\* g_main_context_iterate, or the loop ends and the thread function returns.
LoopTest ==
    /\ tpc = "loop"
    /\ tpc' = IF is_running THEN "iterate" ELSE "exited"
    /\ UNCHANGED <<outputs, ctl, closeIdx, is_running, accepted, outIdx, events,
                   stored, acceptedAtStop>>
    /\ UNCHANGED <<mgrVars, streamVars, fmtVars>>

\* g_main_context_iterate returns (the sources that were ready have been
\* dispatched, or the context was woken up).
IterateDone ==
    /\ tpc = "iterate"
    /\ tpc' = "loop"
    /\ UNCHANGED <<outputs, ctl, closeIdx, is_running, accepted, outIdx, events,
                   stored, acceptedAtStop>>
    /\ UNCHANGED <<mgrVars, streamVars, fmtVars>>

-----------------------------------------------------------------------------
(* capture_manager_output_packet *)

\* What the body of capture_manager_output_packet hands to the Session
\* Store: the body holds no call into storage.
DispatchStore_handoff(st, p) == Append(st, p)

DispatchStore(st, p) == st

\* Line 168: the cursor after the sink at position i has been visited.
OutputNext_break(i, wrote) == IF wrote THEN Len(outputs) + 1 ELSE i + 1

OutputNext(i, wrote) == i + 1

\* Line 170: whether the sink is written. A variant consults the paused flag.
SinkWritten_unlessPaused(output) == output.hasWrite /\ ~paused

SinkWritten(output) == output.hasWrite

\* Within an iteration a ready source's callback delivers its next packet:
\* capture_manager_output_packet(manager, packet) is entered.
DispatchEnter ==
    /\ tpc = "iterate"
    /\ accepted < MaxPackets
    /\ accepted' = accepted + 1
    /\ stored' = DispatchStore(stored, accepted + 1)
    /\ outIdx' = 1
    /\ tpc' = "dispatch"
    /\ UNCHANGED <<outputs, ctl, closeIdx, is_running, events, acceptedAtStop>>
    /\ UNCHANGED <<mgrVars, streamVars, fmtVars>>

\* One turn of the loop of lines 168-173.
DispatchStep ==
    /\ tpc = "dispatch"
    /\ outIdx <= Len(outputs)
    /\ events' = IF SinkWritten(outputs[outIdx])
                 THEN Append(events, [op |-> "write", sink |-> outIdx,
                                      pkt |-> accepted, ctx |-> "capture"])
                 ELSE events
    /\ outIdx' = OutputNext(outIdx, SinkWritten(outputs[outIdx]))
    /\ UNCHANGED <<outputs, ctl, closeIdx, tpc, is_running, accepted, stored,
                   acceptedAtStop>>
    /\ UNCHANGED <<mgrVars, streamVars, fmtVars>>

\* The loop is over: capture_manager_output_packet returns to the source.
DispatchReturn ==
    /\ tpc = "dispatch"
    /\ outIdx > Len(outputs)
    /\ tpc' = "iterate"
    /\ UNCHANGED <<outputs, ctl, closeIdx, is_running, accepted, outIdx, events,
                   stored, acceptedAtStop>>
    /\ UNCHANGED <<mgrVars, streamVars, fmtVars>>

-----------------------------------------------------------------------------
(* capture_manager_stop *)

StopPhases == {"stop_close", "stop_join", "stopped"}

\* Line 107: the cursor after the sink at position i has been visited.
CloseNext_break(i, closed) == IF closed THEN Len(outputs) + 1 ELSE i + 1

CloseNext(i, closed) == i + 1

\* capture_manager_stop is invoked (after start).
StopInvoke ==
    /\ ctl = "started"
    /\ ctl' = "stop_close"
    /\ closeIdx' = 1
    /\ acceptedAtStop' = accepted
    /\ UNCHANGED <<outputs, tpc, is_running, accepted, outIdx, events, stored>>
    /\ UNCHANGED <<mgrVars, streamVars, fmtVars>>

\* One turn of the loop of lines 107-112, run by the caller of stop.
StopCloseStep ==
    /\ ctl = "stop_close"
    /\ closeIdx <= Len(outputs)
    /\ events' = IF outputs[closeIdx].hasClose
                 THEN Append(events, [op |-> "close", sink |-> closeIdx,
                                      pkt |-> 0, ctx |-> "control"])
                 ELSE events
    /\ closeIdx' = CloseNext(closeIdx, outputs[closeIdx].hasClose)
    /\ UNCHANGED <<outputs, ctl, tpc, is_running, accepted, outIdx, stored,
                   acceptedAtStop>>
    /\ UNCHANGED <<mgrVars, streamVars, fmtVars>>

\* Line 115: g_main_loop_quit sets loop->is_running to FALSE.
StopQuit ==
    /\ ctl = "stop_close"
    /\ closeIdx > Len(outputs)
    /\ is_running' = FALSE
    /\ ctl' = "stop_join"
    /\ events' = Append(events, [op |-> "quit", sink |-> 0, pkt |-> 0,
                                 ctx |-> "control"])
    /\ UNCHANGED <<outputs, closeIdx, tpc, accepted, outIdx, stored,
                   acceptedAtStop>>
    /\ UNCHANGED <<mgrVars, streamVars, fmtVars>>

\* Line 116: when g_thread_join(manager->thread) returns.
ThreadJoined_nowait == TRUE

ThreadJoined == tpc = "exited"

StopJoin ==
    /\ ctl = "stop_join"
    /\ ThreadJoined
    /\ ctl' = "stopped"
    /\ events' = Append(events, [op |-> "join", sink |-> 0, pkt |-> 0,
                                 ctx |-> "control"])
    /\ UNCHANGED <<outputs, closeIdx, tpc, is_running, accepted, outIdx,
                   stored, acceptedAtStop>>
    /\ UNCHANGED <<mgrVars, streamVars, fmtVars>>

-----------------------------------------------------------------------------
(* stream.c: stream_new, stream_add_packet, stream_get_count *)

\* guint is 32 bits wide.  A guint is kept as two base-2^16 limbs
\* [hi, lo], value hi * 2^16 + lo, so that no intermediate value leaves the
\* range of a signed 32-bit integer.
Limb == 65536

GuintZero == [hi |-> 0, lo |-> 0]

GuintOne == [hi |-> 0, lo |-> 1]

\* x + 1 in guint arithmetic (modulo 2^32).
GuintInc(x) ==
    IF x.lo + 1 < Limb THEN [hi |-> x.hi, lo |-> x.lo + 1]
    ELSE [hi |-> (x.hi + 1) % Limb, lo |-> 0]

\* x + k in guint arithmetic (modulo 2^32).
GuintAdd(x, k) ==
    [hi |-> (x.hi + k.hi + ((x.lo + k.lo) \div Limb)) % Limb,
     lo |-> (x.lo + k.lo) % Limb]

\* Capture timestamps of packets (packet_time).
PacketTimes == {11, 12}

\* Lengths of long runs of calls: 2^31 - 1 calls.
BurstLens == {[hi |-> 32767, lo |-> 65535]}

\* Lines 40-47: g_malloc0 zeroes every field.
stream_new ==
    [pkt_count |-> GuintZero, firsttv |-> 0, lasttm |-> 0, changed |-> FALSE]

\* A variant that forgets to count the packet once the stream is marked
\* changed.
stream_add_packet_nocount(s, tv, now) ==
    LET c == IF s.changed THEN s.pkt_count ELSE GuintInc(s.pkt_count) IN
    [pkt_count |-> c,
     firsttv   |-> IF c = GuintOne THEN tv ELSE s.firsttv,
     lasttm    |-> now,
     changed   |-> TRUE]

\* Lines 85-89.
stream_add_packet(s, tv, now) ==
    LET c == GuintInc(s.pkt_count) IN
    [pkt_count |-> c,
     firsttv   |-> IF c = GuintOne THEN tv ELSE s.firsttv,
     lasttm    |-> now,
     changed   |-> TRUE]

\* The distance from counter value x up to the next time the counter reads
\* 1, as limbs; [0, 0] stands for 2^32 (x is 1 itself).
StepsToOne(x) ==
    IF x.lo <= 1 THEN [hi |-> (Limb - x.hi) % Limb, lo |-> 1 - x.lo]
    ELSE [hi |-> (2 * Limb - x.hi - 1) % Limb, lo |-> Limb + 1 - x.lo]

\* Whether the counter reads 1 after one of the next k calls.
ReadsOneWithin(x, k) ==
    LET d == StepsToOne(x) IN
    /\ d # GuintZero
    /\ \/ d.hi < k.hi
       \/ d.hi = k.hi /\ d.lo <= k.lo

\* k consecutive stream_add_packet calls, each with a packet of capture
\* time tv, the clock reading now: the stream as the k-th call leaves it.
stream_add_packets(s, k, tv, now) ==
    [pkt_count |-> GuintAdd(s.pkt_count, k),
     firsttv   |-> IF ReadsOneWithin(s.pkt_count, k) THEN tv ELSE s.firsttv,
     lasttm    |-> now,
     changed   |-> TRUE]

\* Lines 92-96.
stream_get_count == stream.pkt_count

\* The inactivity threshold of stream_is_active, in units of the clock.
STREAM_INACTIVE_SECS == 3

\* A variant with a strict comparison.
stream_is_active_strict(s, now) == now - s.lasttm < STREAM_INACTIVE_SECS

\* Lines 128-132.
stream_is_active(s, now) == now - s.lasttm <= STREAM_INACTIVE_SECS

\* Whether no stream_add_packet call has been made yet.
NoCallsYet == calls.singles = 0 /\ calls.bursts = 0

\* One call of stream_add_packet.
AddPacket(tv) ==
    /\ calls.singles < MaxSingles
    /\ stream' = stream_add_packet(stream, tv, mono)
    /\ calls' = [calls EXCEPT !.singles = @ + 1,
                              !.lo = (@ + 1) % Limb,
                              !.hi = @ + ((calls.lo + 1) \div Limb),
                              !.first = IF NoCallsYet THEN tv ELSE @,
                              !.lastAt = mono,
                              !.seen = "none"]
    /\ UNCHANGED mono

\* A long run of calls of stream_add_packet.
AddPacketBurst(k, tv) ==
    /\ calls.bursts < MaxBursts
    /\ stream' = stream_add_packets(stream, k, tv, mono)
    /\ calls' = [calls EXCEPT !.bursts = @ + 1,
                              !.lo = (@ + k.lo) % Limb,
                              !.hi = @ + k.hi + ((calls.lo + k.lo) \div Limb),
                              !.first = IF NoCallsYet THEN tv ELSE @,
                              !.lastAt = mono,
                              !.seen = "none"]
    /\ UNCHANGED mono

\* One call of stream_is_active: it reads the clock and the stream.
IsActive ==
    /\ calls.seen = "none"
    /\ calls' = [calls EXCEPT !.seen = IF stream_is_active(stream, mono)
                                       THEN "active" ELSE "inactive"]
    /\ UNCHANGED <<stream, mono>>

\* The monotonic clock advances.
Tick ==
    /\ mono < MaxMono
    /\ mono' = mono + 1
    /\ calls' = [calls EXCEPT !.seen = "none"]
    /\ UNCHANGED stream

-----------------------------------------------------------------------------
(* stream.c: stream_set_format, stream_get_format *)

\* The width of guint8: stream->fmtcode holds values below 256.
Guint8Values == 256

\* packet_rtp_standard_codec: the built-in payload-type table, NULL for a
\* code it does not list.
packet_rtp_standard_codec(code) ==
    IF code = 0 THEN "g711u"
    ELSE IF code = 8 THEN "g711a"
    ELSE NULL

\* Format codes a caller may pass to stream_set_format.
FormatCodes == {0, 8, 96, 97, 352}

\* Dynamic format entries an SDP media descriptor may declare.
SdpFormats == [id : {0, 96, 97}, alias : {"opus", "telephone-event"}]

\* The formats list of a media descriptor: up to MaxFormats entries, in
\* declaration order.
RECURSIVE FormatLists(_)
FormatLists(n) ==
    IF n = 0 THEN {<<>>}
    ELSE LET shorter == FormatLists(n - 1) IN
         shorter \cup {Append(l, f) : l \in {x \in shorter : Len(x) = n - 1},
                                      f \in SdpFormats}

\* stream->media is NULL.
NoMedia == [present |-> FALSE, formats |-> <<>>]

\* The media descriptors a stream may be created with.
MediaDescriptors ==
    {NoMedia} \cup {[present |-> TRUE, formats |-> l] : l \in FormatLists(MaxFormats)}

\* Value of format when stream_get_format was not the latest call.
Unread == "(unread)"

\* The loop of lines 111-116 from list position i on.
RECURSIVE FormatLoop(_, _, _)
FormatLoop(formats, i, code) ==
    IF i > Len(formats) THEN NULL
    ELSE IF formats[i].id = code THEN formats[i].alias
    ELSE FormatLoop(formats, i + 1, code)

\* A variant that scans the media descriptor before the built-in table.
stream_get_format_dynamicFirst(m, code) ==
    IF ~m.present THEN NULL
    ELSE IF FormatLoop(m.formats, 1, code) # NULL
         THEN FormatLoop(m.formats, 1, code)
         ELSE packet_rtp_standard_codec(code)

\* Lines 98-120 (the stream itself is not NULL).
stream_get_format(m, code) ==
    IF ~m.present THEN NULL
    ELSE IF packet_rtp_standard_codec(code) # NULL
         THEN packet_rtp_standard_codec(code)
         ELSE FormatLoop(m.formats, 1, code)

\* stream_new(type, msg, media): a new stream on media descriptor m; every
\* other field is zero.
StreamNewOn(m) ==
    /\ media' = m
    /\ fmtcode' = 0
    /\ format' = Unread

\* Lines 76-80: the guint8 parameter keeps the low eight bits.
stream_set_format(code) ==
    /\ fmtcode' = code % Guint8Values
    /\ format' = Unread
    /\ UNCHANGED media

\* One call of stream_get_format.
GetFormat ==
    /\ format = Unread
    /\ format' = stream_get_format(media, fmtcode)
    /\ UNCHANGED <<media, fmtcode>>

-----------------------------------------------------------------------------
(* Specifications *)

\* capture_manager_new: g_malloc0, paused FALSE, a fresh loop not running.
\* stream_new: g_malloc0, every counter and timestamp zero.
Init ==
    /\ inputs = <<>>
    /\ outputs = <<>>
    /\ filter = NULL
    /\ paused = FALSE
    /\ last = NoCall
    /\ addCalls = 0
    /\ ctl = "config"
    /\ closeIdx = 0
    /\ tpc = "none"
    /\ is_running = FALSE
    /\ accepted = 0
    /\ outIdx = 0
    /\ events = <<>>
    /\ stored = <<>>
    /\ acceptedAtStop = 0
    /\ stream = stream_new
    /\ mono = 0
    /\ calls = [hi |-> 0, lo |-> 0, singles |-> 0, bursts |-> 0, first |-> 0,
                lastAt |-> 0, seen |-> "none"]
    /\ media = NoMedia
    /\ fmtcode = 0
    /\ format = Unread

CfgNext ==
    \/ \E input \in NewInputs :
          capture_manager_add_input(input) /\ UNCHANGED <<runVars, streamVars, fmtVars>>
    \/ \E e \in FilterExprs :
          capture_manager_set_filter(e) /\ UNCHANGED <<runVars, streamVars, fmtVars>>
    \/ \E b \in BOOLEAN :
          paused # b /\ capture_manager_set_pause(b) /\ UNCHANGED <<runVars, streamVars, fmtVars>>
    \/ \E i \in DOMAIN inputs :
          SourceDestroyed(i) /\ UNCHANGED <<runVars, streamVars, fmtVars>>

CfgSpec == Init /\ [][CfgNext]_vars

ControlNext ==
    \/ \E output \in NewOutputs : capture_manager_add_output(output)
    \/ \E b \in BOOLEAN : SetPauseRun(b)
    \/ capture_manager_start

StopNext ==
    \/ StopInvoke
    \/ StopCloseStep
    \/ StopQuit
    \/ StopJoin

ThreadNext ==
    \/ LoopRunEnter
    \/ LoopTest
    \/ IterateDone
    \/ DispatchEnter
    \/ DispatchStep
    \/ DispatchReturn

Next == ControlNext \/ StopNext \/ ThreadNext

Spec == Init /\ [][Next]_vars

StreamNext ==
    \/ \E tv \in PacketTimes :
          AddPacket(tv) /\ UNCHANGED <<mgrVars, runVars, fmtVars>>
    \/ \E k \in BurstLens, tv \in PacketTimes :
          AddPacketBurst(k, tv) /\ UNCHANGED <<mgrVars, runVars, fmtVars>>
    \/ IsActive /\ UNCHANGED <<mgrVars, runVars, fmtVars>>
    \/ Tick /\ UNCHANGED <<mgrVars, runVars, fmtVars>>

StreamSpec == Init /\ [][StreamNext]_vars

FormatNext ==
    \/ \E m \in MediaDescriptors :
          StreamNewOn(m) /\ UNCHANGED <<mgrVars, runVars, streamVars>>
    \/ \E code \in FormatCodes :
          stream_set_format(code) /\ UNCHANGED <<mgrVars, runVars, streamVars>>
    \/ GetFormat /\ UNCHANGED <<mgrVars, runVars, streamVars>>

FormatSpec == Init /\ [][FormatNext]_vars

\* The scheduler runs the capture thread and the caller of stop: neither
\* waits forever while it has a step to take.
FairSpec == Spec /\ WF_vars(StopNext) /\ WF_vars(ThreadNext)

-----------------------------------------------------------------------------
(* Properties *)

\* Whether every registered source that has a filter callback accepts e.
AllAccept(e) ==
    \A i \in DOMAIN inputs : inputs[i].hasFilter => e \in inputs[i].accepts

\* C1: when set_filter(E) has just returned and every source with a filter
\* callback accepts E (also when there is no source at all), the call
\* returned TRUE and manager->filter is E.
C1_SetFilterSuccessStores ==
    (last.op = "set_filter" /\ AllAccept(last.expr))
        => (last.ok /\ capture_manager_filter = last.expr)

\* The case of C1 with a source that has a filter callback, one that has
\* none, and a filter that differs from the one stored before.
C1_Witness ==
    /\ last.op = "set_filter" /\ last.ok
    /\ last.prev # last.expr
    /\ \E i \in DOMAIN inputs : inputs[i].hasFilter
    /\ \E i \in DOMAIN inputs : ~inputs[i].hasFilter
    /\ capture_manager_filter = last.expr

\* C2: when set_filter(E) has just returned and some registered source
\* rejects E, the call returned FALSE and manager->filter is NULL.
C2_SetFilterRejectUnsets ==
    (last.op = "set_filter" /\ ~AllAccept(last.expr))
        => (~last.ok /\ capture_manager_filter = NULL)

\* The case of C2 where a filter was stored before the call and a source
\* registered before the rejecting one accepted E.
C2_Witness ==
    /\ last.op = "set_filter" /\ ~last.ok
    /\ last.prev # NULL
    /\ \E i \in DOMAIN inputs : inputs[i].applied = last.expr
    /\ capture_manager_filter = NULL

\* C3: once capture_manager_stop has returned, no step changes the sink
\* operations invoked, the packets accepted or handed on, or the position of
\* the capture thread.
C3_StopBarrier ==
    [][ctl = "stopped" =>
          /\ events' = events
          /\ accepted' = accepted
          /\ stored' = stored
          /\ outIdx' = outIdx
          /\ tpc' = tpc]_vars

\* stop has returned after the capture thread wrote packets to sinks.
C3_Witness ==
    /\ ctl = "stopped"
    /\ tpc = "exited"
    /\ accepted > 0
    /\ \E k \in DOMAIN events : events[k].op = "write"

\* C4: whenever stop has been invoked (after start), stop eventually
\* returns.
C4_StopCompletes == (ctl = "stop_close") ~> (ctl = "stopped")

\* C5: from the moment stop is invoked, every sink write is for a packet
\* whose dispatch had begun before stop was invoked.
C5_WritesFrozenAtStop ==
    ctl \in StopPhases =>
        \A k \in DOMAIN events :
            events[k].op = "write" => events[k].pkt <= acceptedAtStop

\* The writes made for packet p, in the order they were made.
WritesOf(p) == SelectSeq(events, LAMBDA e : e.op = "write" /\ e.pkt = p)

\* The writes made to the sink at list position i, in the order they were
\* made.
WritesTo(i) == SelectSeq(events, LAMBDA e : e.op = "write" /\ e.sink = i)

\* The registered sinks at list positions below n that have a write
\* operation, in registration order.
WritersBelow(n) ==
    SelectSeq([i \in 1..(n - 1) |-> i], LAMBDA i : outputs[i].hasWrite)

\* How far the dispatch of packet p has got: past every sink when it has
\* returned, at the cursor while it runs.
DispatchCursor(p) ==
    IF p = accepted /\ tpc = "dispatch" THEN outIdx ELSE Len(outputs) + 1

\* C6: the writes made for a packet are one write to each registered sink
\* that has a write operation, in registration order (up to the cursor while
\* the dispatch runs), and the packets written to a sink are the dispatched
\* packets 1, 2, ... in that order.
C6_FanOutInOrder ==
    /\ \A p \in 1..accepted :
          LET w == WritesOf(p)
              x == WritersBelow(DispatchCursor(p))
          IN  /\ Len(w) = Len(x)
              /\ \A j \in DOMAIN w : w[j].sink = x[j]
    /\ \A i \in DOMAIN outputs :
          LET w == WritesTo(i) IN \A j \in DOMAIN w : w[j].pkt = j

\* Two packets dispatched to three sinks of which the middle one has no
\* write operation.
C6_Witness ==
    /\ accepted = 2 /\ tpc # "dispatch"
    /\ Len(outputs) = 3
    /\ outputs[1].hasWrite /\ ~outputs[2].hasWrite /\ outputs[3].hasWrite
    /\ Len(WritesOf(1)) = 2 /\ Len(WritesOf(2)) = 2
    /\ Len(WritesTo(3)) = 2

\* Number of times packet p was handed to the Session Store.
RECURSIVE Occurrences(_, _)
Occurrences(s, p) ==
    IF s = <<>> THEN 0
    ELSE (IF Head(s) = p THEN 1 ELSE 0) + Occurrences(Tail(s), p)

HasOnline == \E i \in DOMAIN inputs : inputs[i].mode # CAPTURE_MODE_OFFLINE

HasOffline == \E i \in DOMAIN inputs : inputs[i].mode = CAPTURE_MODE_OFFLINE

HasLoading ==
    \E i \in DOMAIN inputs :
        inputs[i].mode = CAPTURE_MODE_OFFLINE /\ ~inputs[i].destroyed

StatusCategory ==
    IF HasOnline /\ ~HasOffline THEN "Online"
    ELSE IF ~HasOnline /\ HasOffline THEN "Offline"
    ELSE "Mixed"

StatusSuffix ==
    IF paused THEN " (Paused)"
    ELSE IF HasLoading THEN " (Loading)"
    ELSE ""

\* C8: the status description is the category followed by the suffix.
C8_StatusIsTable == capture_status_desc = StatusCategory \o StatusSuffix

\* Paused while an offline source is still loading, both kinds present.
C8_Witness ==
    /\ paused /\ HasLoading /\ HasOnline
    /\ capture_status_desc = "Mixed (Paused)"

\* C9: is_online is TRUE iff no registered source is in offline mode, and
\* sources_count is the number of add_input calls.
C9_OnlineAndCount ==
    /\ capture_is_online <=> ~HasOffline
    /\ capture_sources_count = addCalls

\* An offline source registered after a live one, and a third source.
C9_Witness ==
    /\ addCalls = 3
    /\ inputs[1].mode = CAPTURE_MODE_ONLINE
    /\ inputs[2].mode = CAPTURE_MODE_OFFLINE
    /\ ~capture_is_online
    /\ capture_sources_count = 3

\* C10 as stated: count() is the number N of add_packet calls made.
C10_CountEqualsCalls ==
    /\ stream_get_count.hi = calls.hi
    /\ stream_get_count.lo = calls.lo

\* C10 as amended: count() is N modulo 2^32.
C10_CountIsCallsMod2_32 ==
    /\ stream_get_count.hi = calls.hi % Limb
    /\ stream_get_count.lo = calls.lo

\* More than 2^32 calls have been made and the counter has wrapped.
C10_Witness ==
    /\ calls.hi >= Limb
    /\ stream_get_count.hi < Limb
    /\ stream_get_count.hi = calls.hi - Limb

\* C11: once a packet has been added, the stream's first-packet timestamp
\* is the capture time of the first packet added, whatever was added since.
C11_FirstTimestampSetOnce ==
    ~NoCallsYet => stream.firsttv = calls.first

\* The reading of stream_is_active in the current state.
StreamActive == stream_is_active(stream, mono)

\* Whether the step is a call (or a run of calls) of stream_add_packet.
AddedPacket ==
    calls'.singles # calls.singles \/ calls'.bursts # calls.bursts

\* C12: is_active is TRUE right after an add_packet; once a packet has been
\* added it is TRUE exactly while the time since the latest add_packet is at
\* most the threshold; without an add_packet it never turns from FALSE to
\* TRUE; and a call of is_active returns that reading and leaves the stream
\* as it is.
C12_ActiveWhileRecent ==
    [][ /\ AddedPacket => StreamActive'
        /\ ~NoCallsYet' =>
              (StreamActive' <=> mono' - calls'.lastAt <= STREAM_INACTIVE_SECS)
        /\ (~AddedPacket /\ ~StreamActive) => ~StreamActive'
        /\ calls'.seen # "none" =>
              /\ stream' = stream
              /\ calls'.seen = IF StreamActive THEN "active" ELSE "inactive"
      ]_vars

\* is_active has just returned FALSE for a stream that was added packets
\* at two different clock readings and then left alone past the threshold.
C12_Witness ==
    /\ calls.seen = "inactive"
    /\ calls.singles >= 2
    /\ calls.lastAt > 0
    /\ mono - calls.lastAt > STREAM_INACTIVE_SECS

\* The alias of the first declared entry of media descriptor m whose id is
\* code, NULL if there is none.
FirstDynamic(m, code) ==
    LET I == {i \in DOMAIN m.formats : m.formats[i].id = code} IN
    IF I = {} THEN NULL
    ELSE m.formats[CHOOSE i \in I : \A j \in I : i <= j].alias

\* The resolution order of section 4.2.
Resolved(m, code) ==
    IF packet_rtp_standard_codec(code) # NULL
    THEN packet_rtp_standard_codec(code)
    ELSE FirstDynamic(m, code)

\* C13 as stated: for every stream the resolved format name is the static
\* name if the code is in the static table, else the alias of the first
\* dynamic entry with that id, else NULL.
C13_FormatResolution ==
    format # Unread => format = Resolved(media, fmtcode)

\* C13 as amended: so it is for every stream that has a media descriptor;
\* for a stream without one the result is NULL.
C13_FormatResolutionWithMedia ==
    format # Unread =>
        format = IF media.present THEN Resolved(media, fmtcode) ELSE NULL

\* The static name was returned although the media descriptor declares a
\* dynamic entry with the same id.
C13_Witness ==
    /\ format = "g711u"
    /\ media.present
    /\ \E i \in DOMAIN media.formats : media.formats[i].id = fmtcode

\* What capture_manager_stop has done so far: operation and sink.
StopSteps ==
    LET c == SelectSeq(events, LAMBDA e : e.op \in {"close", "quit", "join"})
    IN  [j \in DOMAIN c |-> [op |-> c[j].op, sink |-> c[j].sink]]

\* The registered sinks at list positions below n that have a close
\* operation, in registration order.
ClosersBelow(n) ==
    SelectSeq([i \in 1..(n - 1) |-> i], LAMBDA i : outputs[i].hasClose)

\* How far the close loop of stop has got.
CloseCursor ==
    IF ctl \in {"config", "started"} THEN 1
    ELSE IF ctl = "stop_close" THEN closeIdx
    ELSE Len(outputs) + 1

\* C14: what stop has done is, in this order: one close of each registered
\* sink that has a close operation, in registration order (up to the cursor
\* while the loop runs); then, once the loop is over, the quit of the event
\* loop; then, once stop has returned, the join of the capture thread.
C14_StopOrder ==
    LET x == ClosersBelow(CloseCursor) IN
    StopSteps =
        [j \in DOMAIN x |-> [op |-> "close", sink |-> x[j]]]
        \o (IF ctl \in {"stop_join", "stopped"}
            THEN <<[op |-> "quit", sink |-> 0]>> ELSE <<>>)
        \o (IF ctl = "stopped" THEN <<[op |-> "join", sink |-> 0]>> ELSE <<>>)

\* stop has returned with three sinks registered of which the middle one
\* has no close operation.
C14_Witness ==
    /\ ctl = "stopped"
    /\ Len(outputs) = 3
    /\ outputs[1].hasClose /\ ~outputs[2].hasClose /\ outputs[3].hasClose
    /\ Len(StopSteps) = 4

\* C15: every sink write and every sink close is executed by the capture
\* thread.
C15_SinkOpsInCaptureThread ==
    \A k \in DOMAIN events :
        events[k].op \in {"write", "close"} => events[k].ctx = "capture"

\* Whether the step is a call of set_pause.
PauseSet == paused' # paused

\* C17: a call of set_pause leaves the sources, the sinks, the stored filter
\* and the state of the loop and of its thread as they are; and a dispatch
\* that returns while paused has written its packet to every registered
\* sink that has a write operation.
C17_PauseOnlyFlag ==
    [][ /\ PauseSet =>
              /\ inputs' = inputs /\ outputs' = outputs /\ filter' = filter
              /\ is_running' = is_running /\ tpc' = tpc /\ ctl' = ctl
              /\ events' = events /\ accepted' = accepted
        /\ (paused /\ tpc = "dispatch" /\ tpc' = "iterate") =>
              LET w == WritesOf(accepted)
                  x == WritersBelow(Len(outputs) + 1)
              IN  /\ Len(w) = Len(x)
                  /\ \A j \in DOMAIN w : w[j].sink = x[j]
      ]_vars

\* Paused while the loop runs, and the dispatch of the second packet has
\* written to two sinks.
C17_Witness ==
    /\ paused /\ ctl = "started" /\ tpc = "dispatch"
    /\ accepted = 2
    /\ Len(WritesOf(2)) = 2

\* C19: no sink is written after it was closed.
C19_NoWriteAfterClose ==
    \A j, k \in DOMAIN events :
        ~ /\ j < k
          /\ events[j].op = "close" /\ events[k].op = "write"
          /\ events[j].sink = events[k].sink

\* The sources that reject expression e.
Rejecting(e) ==
    {i \in DOMAIN inputs : inputs[i].hasFilter /\ e \notin inputs[i].accepts}

\* The list position at which set_filter(e) stops: the first rejecting
\* source, or the end of the list.
LastVisited(e) ==
    IF Rejecting(e) = {} THEN Len(inputs)
    ELSE CHOOSE i \in Rejecting(e) : \A j \in Rejecting(e) : i <= j

\* C16: set_filter(E) has invoked, in registration order, the filter
\* callback of the sources that have one up to the first rejecting source
\* and of no source after it; the sources before the rejecting one that have
\* a callback have E applied; the sources after it have what they had
\* before the call; the call fails only if some callback rejects.
C16_StopsAtFirstRejection ==
    last.op = "set_filter" =>
        LET e == last.expr
            n == LastVisited(e)
        IN  /\ last.ok <=> Rejecting(e) = {}
            /\ last.invoked =
                  SelectSeq([i \in 1..n |-> i], LAMBDA i : inputs[i].hasFilter)
            /\ \A i \in DOMAIN inputs :
                  /\ (i \notin Rejecting(e) /\ i <= n /\ inputs[i].hasFilter)
                        => inputs[i].applied = e
                  /\ i > n => inputs[i].applied = last.before[i]

\* A failed call: the first source accepted E, which it had not applied
\* before, the second rejected, and the third, which would accept E, was
\* not invoked.
C16_Witness ==
    /\ last.op = "set_filter" /\ ~last.ok
    /\ Len(inputs) = 3
    /\ last.invoked = <<1, 2>>
    /\ inputs[1].applied = last.expr /\ last.before[1] # last.expr
    /\ inputs[3].hasFilter /\ last.expr \in inputs[3].accepts
    /\ inputs[3].applied # last.expr

\* C18: the status description is never "Online (Loading)".
C18_NeverOnlineLoading == capture_status_desc # "Online (Loading)"

\* A loading offline source beside a live source, not paused.
C18_Witness ==
    /\ ~paused /\ HasLoading /\ HasOnline
    /\ capture_status_desc = "Mixed (Loading)"

\* C20: when a filter is stored, every registered source that has a filter
\* callback has that filter as the one most recently applied to it.
C20_StoredFilterApplied ==
    capture_manager_filter # NULL =>
        \A i \in DOMAIN inputs :
            inputs[i].hasFilter => inputs[i].applied = capture_manager_filter

====
